---- MODULE Spec2Model ----
(***************************************************************************)
(* The VLESS user cache of proxy/vless/database: the LRU index (cache/lru.go) *)
(* and the dual-indexed, TTL-expiring Cache built on it (cache/cache.go).   *)
(* LRU nodes are heap objects addressed by small integers; Nil is the nil    *)
(* pointer.  A node that nothing refers to any more is dropped from the       *)
(* heap, as Go's collector does.                                              *)
(***************************************************************************)
EXTENDS Integers, Sequences, FiniteSets, TLC

\* ---------------------------------------------------------------- bounds
\* LRU nodes the heap can hold at once.
MaxObj == 2
\* The clock (time.Now()) runs from 0 to MaxTime.
MaxTime == 2
MaxRows == 201
MaxThreads == 2

\* ------------------------------------------------------- configuration
\* NewCache(ttl, maxSize): the time-to-live, and the capacities a Cache is
\* built with.
TTL == 1
Capacities == {1, 2}

\* The strings callers pass as ids; account UUIDs render to the same strings.
Keys == {"a", "b"}
Emails == {"e1", "e2"}

Nil == 0
NoID == "-"

\* protocol.MemoryUser: Email and Account; the Account is a *vless.MemoryAccount
\* (Kind "vless", with the UUID string ID) or some other account type.
Users ==
  {[Email |-> "e1", Kind |-> "vless", ID |-> "a"],
   [Email |-> "e2", Kind |-> "vless", ID |-> "b"],
   [Email |-> "e1", Kind |-> "other", ID |-> NoID]}

\* The nil *protocol.MemoryUser.
NoUser == [Email |-> "-", Kind |-> "nil", ID |-> NoID]

\* ------------------------------------------------------------ Go maps
EmptyMap == [x \in {} |-> x]

\* m[k] = v
Put(m, k, v) == [x \in DOMAIN m \cup {k} |-> IF x = k THEN v ELSE m[x]]

\* delete(m, k)
Del(m, k) == [x \in DOMAIN m \ {k} |-> m[x]]

\* The address a new node gets: the collector keeps the nodes at 1..n.
Fresh(nodes) == Cardinality(DOMAIN nodes) + 1

\* ------------------------------------------------------------ LRU index
\* An LRUManager: head, tail, nodeMap, and the nodes (key, prev, next) it or
\* anything else still refers to.
NewLRUManager == [head |-> Nil, tail |-> Nil, nodeMap |-> EmptyMap, nodes |-> EmptyMap]

\* lru.Add(key): a new node at the head; nodeMap[key] is overwritten.
LRUAdd(l, key) ==
  LET n == Fresh(l.nodes)
      nodes1 == IF l.head = Nil
                  THEN Put(l.nodes, n, [key |-> key, prev |-> Nil, next |-> Nil])
                  ELSE [Put(l.nodes, n, [key |-> key, prev |-> Nil, next |-> l.head])
                          EXCEPT ![l.head].prev = n]
  IN [head |-> n,
      tail |-> IF l.head = Nil THEN n ELSE l.tail,
      nodeMap |-> Put(l.nodeMap, key, n),
      nodes |-> nodes1]

\* lru.Remove(node): unlinks the node by its own prev/next, whatever they
\* point to, and deletes nodeMap[node.key], whichever node that names.
LRURemove(l, node) ==
  IF node = Nil THEN l
  ELSE
    LET nd == l.nodes[node]
        head1 == IF node = l.head THEN nd.next ELSE l.head
        tail1 == IF node = l.tail THEN nd.prev ELSE l.tail
        nodes1 == IF nd.prev # Nil
                    THEN [l.nodes EXCEPT ![nd.prev].next = nd.next]
                    ELSE l.nodes
        nodes2 == IF nodes1[node].next # Nil
                    THEN [nodes1 EXCEPT ![nodes1[node].next].prev = nodes1[node].prev]
                    ELSE nodes1
    IN [head |-> head1, tail |-> tail1,
        nodeMap |-> Del(l.nodeMap, nd.key),
        nodes |-> nodes2]

\* lru.MoveToFront(node)
MoveToFront(l, node) ==
  IF l.head = node THEN l
  ELSE
    LET l1 == LRURemove(l, node)
        nodes1 == [l1.nodes EXCEPT ![node].prev = Nil, ![node].next = l1.head]
        nodes2 == IF l1.head # Nil
                    THEN [nodes1 EXCEPT ![l1.head].prev = node]
                    ELSE nodes1
    IN [l1 EXCEPT !.head = node, !.nodes = nodes2]

\* lru.RemoveTail()
RemoveTail(l) == IF l.tail # Nil THEN LRURemove(l, l.tail) ELSE l

\* lru.GetNode(key): the node, or Nil when the key is not in nodeMap.
GetNode(l, key) == IF key \in DOMAIN l.nodeMap THEN l.nodeMap[key] ELSE Nil

RECURSIVE Walk(_, _, _)
\* The nodes met from node n by following next, until nil or a node met before.
Walk(nodes, n, seen) ==
  IF n = Nil \/ n \in seen THEN seen ELSE Walk(nodes, nodes[n].next, seen \cup {n})

\* The nodes of the recency list: those met from head by following next.
ListNodes(l) == Walk(l.nodes, l.head, {})

\* The nodes the LRU index still holds: in the list, or in nodeMap.
Indexed(l) == ListNodes(l) \cup {l.nodeMap[k] : k \in DOMAIN l.nodeMap}

\* ---------------------------------------------------------------- heap
\* The order Go's collector is taken to visit the roots in.
KeyOrder == <<"a", "b">>
EmailOrder == <<"e1", "e2">>

\* What the Cache refers to nodes by: head, tail, nodeMap and each held
\* User's lruNode.
Roots(c) ==
  <<c.lru.head, c.lru.tail>>
    \o [i \in 1..Len(KeyOrder) |-> GetNode(c.lru, KeyOrder[i])]
    \o [i \in 1..Len(KeyOrder) |->
          IF KeyOrder[i] \in DOMAIN c.usersByID
            THEN c.usersByID[KeyOrder[i]].lruNode ELSE Nil]
    \o [i \in 1..Len(EmailOrder) |->
          IF EmailOrder[i] \in DOMAIN c.usersByEmail
            THEN c.usersByEmail[EmailOrder[i]].lruNode ELSE Nil]

RECURSIVE Visit(_, _, _)
\* The nodes reachable from todo by next/prev, in the order first met.
Visit(nodes, seen, todo) ==
  IF todo = <<>> THEN seen
  ELSE LET n == Head(todo)
       IN IF n = Nil \/ \E i \in 1..Len(seen) : seen[i] = n
            THEN Visit(nodes, seen, Tail(todo))
            ELSE Visit(nodes, Append(seen, n),
                       Tail(todo) \o <<nodes[n].next, nodes[n].prev>>)

\* Where a node is after the collector has moved it.
Moved(order, n) == IF n = Nil THEN Nil ELSE CHOOSE i \in 1..Len(order) : order[i] = n

\* The Cache c with its kept nodes, order, renumbered 1..n in that order;
\* every pointer follows its node.
Renumber(c, order) ==
  LET user(u) == [u EXCEPT !.lruNode = Moved(order, @)]
  IN [usersByID |-> [k \in DOMAIN c.usersByID |-> user(c.usersByID[k])],
      usersByEmail |-> [k \in DOMAIN c.usersByEmail |-> user(c.usersByEmail[k])],
      maxSize |-> c.maxSize,
      lru |-> [head |-> Moved(order, c.lru.head),
               tail |-> Moved(order, c.lru.tail),
               nodeMap |-> [k \in DOMAIN c.lru.nodeMap |-> Moved(order, c.lru.nodeMap[k])],
               nodes |-> [i \in 1..Len(order) |->
                            [key |-> c.lru.nodes[order[i]].key,
                             prev |-> Moved(order, c.lru.nodes[order[i]].prev),
                             next |-> Moved(order, c.lru.nodes[order[i]].next)]]]]

\* Go's garbage collector: a node that neither the Cache nor a kept node
\* refers to is gone.  A Go program cannot tell one address from another
\* except by comparing pointers, so the kept nodes are renumbered in the order
\* the collector met them.
Collect(c) == Renumber(c, Visit(c.lru.nodes, <<>>, Roots(c)))

\* ---------------------------------------------------------------- Cache
\* A *User is modelled by what it points to: User, ExpiresAt and lruNode.
\* Set builds the object and nothing changes it afterwards, and its lruNode is
\* a node allocated for it alone, so two map slots hold the same object
\* exactly when they hold equal values.

\* NewCache(ttl, maxSize); the ttl is TTL.
NewCache(maxSize) ==
  [usersByID |-> EmptyMap, usersByEmail |-> EmptyMap, lru |-> NewLRUManager,
   maxSize |-> maxSize]

\* An expiry test that lets an entry live one instant too long.
ExpiredLate(u, t) == t > u.ExpiresAt + 1

\* An expiry test that already fires at the expiry instant itself.
ExpiredAtInstant(u, t) == t >= u.ExpiresAt

\* time.Now().After(user.ExpiresAt)
Expired(u, t) == t > u.ExpiresAt

\* What a lookup returns: the cache afterwards, and (user, found).
Result(c, found, user) == [c |-> c, found |-> found, user |-> user]

\* Cache.Get(id) at time t
CacheGet(c, id, t) ==
  IF id \notin DOMAIN c.usersByID THEN Result(c, FALSE, NoUser)
  ELSE
    LET user == c.usersByID[id]
    IN IF Expired(user, t)
         THEN Result([c EXCEPT
                        !.lru = IF user.lruNode # Nil THEN LRURemove(c.lru, user.lruNode) ELSE c.lru,
                        !.usersByID = Del(c.usersByID, id),
                        !.usersByEmail = Del(c.usersByEmail, user.User.Email)],
                     FALSE, NoUser)
         ELSE Result([c EXCEPT
                        !.lru = IF user.lruNode # Nil THEN MoveToFront(c.lru, user.lruNode) ELSE c.lru],
                     TRUE, user.User)

\* Cache.GetByEmail(email) at time t
CacheGetByEmail(c, email, t) ==
  IF email \notin DOMAIN c.usersByEmail THEN Result(c, FALSE, NoUser)
  ELSE
    LET user == c.usersByEmail[email]
        uuid == user.User.ID
        node == GetNode(c.lru, uuid)
    IN IF user.User.Kind # "vless" THEN Result(c, FALSE, NoUser)
       ELSE IF Expired(user, t)
         THEN Result([c EXCEPT
                        !.lru = IF node # Nil THEN LRURemove(c.lru, node) ELSE c.lru,
                        !.usersByEmail = Del(c.usersByEmail, email),
                        !.usersByID = Del(c.usersByID, uuid)],
                     FALSE, NoUser)
         ELSE Result([c EXCEPT
                        !.lru = IF node # Nil THEN MoveToFront(c.lru, node) ELSE c.lru],
                     TRUE, user.User)

\* The first part of Cache.Set: at capacity, the entry named by the tail
\* node's key is dropped from both maps and the tail node removed, if that key
\* is in usersByID; otherwise nothing is evicted.
Evict(c) ==
  IF c.maxSize > 0 /\ Cardinality(DOMAIN c.usersByID) >= c.maxSize /\ c.lru.tail # Nil
    THEN LET id == c.lru.nodes[c.lru.tail].key
         IN IF id \in DOMAIN c.usersByID
              THEN [c EXCEPT
                      !.usersByID = Del(c.usersByID, id),
                      !.usersByEmail = Del(c.usersByEmail, c.usersByID[id].User.Email),
                      !.lru = RemoveTail(c.lru)]
              ELSE c
    ELSE c

\* Cache.Set(id, user) at time t
CacheSet(c, id, user, t) ==
  LET c1 == Evict(c)
      lru1 == LRUAdd(c1.lru, id)
      newUser == [User |-> user, ExpiresAt |-> t + TTL, lruNode |-> lru1.head]
  IN [c1 EXCEPT
        !.usersByID = Put(c1.usersByID, id, newUser),
        !.usersByEmail = Put(c1.usersByEmail, user.Email, newUser),
        !.lru = lru1]

\* A Delete that looks the node up by key instead of taking it from the entry,
\* and so unlinks a node even when usersByID holds no entry for the id.
CacheDeleteByKey(c, id) ==
  [c EXCEPT
     !.usersByID = Del(c.usersByID, id),
     !.usersByEmail = IF id \in DOMAIN c.usersByID
                        THEN Del(c.usersByEmail, c.usersByID[id].User.Email)
                        ELSE c.usersByEmail,
     !.lru = LRURemove(c.lru, GetNode(c.lru, id))]

\* Cache.Delete(id)
CacheDelete(c, id) ==
  IF id \in DOMAIN c.usersByID
    THEN LET user == c.usersByID[id]
         IN [c EXCEPT
               !.usersByID = Del(c.usersByID, id),
               !.usersByEmail = Del(c.usersByEmail, user.User.Email),
               !.lru = IF user.lruNode # Nil THEN LRURemove(c.lru, user.lruNode) ELSE c.lru]
    ELSE c

\* The ids the fallback scan of Cache.DeleteByEmail can stop at: Go ranges
\* over usersByID in no fixed order and deletes the first id whose user has
\* the email.  NoID when the scan does not run or finds nothing.
ScanHits(c, email) ==
  LET hits == {id \in DOMAIN c.usersByID : c.usersByID[id].User.Email = email}
  IN IF email \in DOMAIN c.usersByEmail
          /\ c.usersByEmail[email].User.Kind # "vless"
          /\ hits # {}
       THEN hits ELSE {NoID}

\* Cache.DeleteByEmail(email), the scan (if it runs) stopping at id hit.
CacheDeleteByEmail(c, email, hit) ==
  IF email \in DOMAIN c.usersByEmail
    THEN LET user == c.usersByEmail[email]
         IN [c EXCEPT
               !.usersByEmail = Del(c.usersByEmail, email),
               !.usersByID = IF user.User.Kind = "vless"
                               THEN Del(c.usersByID, user.User.ID)
                               ELSE Del(c.usersByID, hit),
               !.lru = IF user.lruNode # Nil THEN LRURemove(c.lru, user.lruNode) ELSE c.lru]
    ELSE c

\* What time.Now() may return each time the loop of GetAll or GetCount, begun
\* at time t, reads it: the loop reads the clock once for every entry it
\* visits, Go ranges over usersByID in no fixed order, and the clock does not
\* run back, so each entry may be met at any time from t on.
Clocks(c, t) == [DOMAIN c.usersByID -> t..MaxTime]

\* The clock read as t for every entry: no time passes during the loop.
Instant(c, t) == [id \in DOMAIN c.usersByID |-> t]

\* The time of the last reading of the clock, t when there was none.
Last(clock, t) ==
  IF DOMAIN clock = {} THEN t
  ELSE CHOOSE m \in {clock[id] : id \in DOMAIN clock} :
         \A id \in DOMAIN clock : clock[id] <= m

\* The ids of the entries of usersByID the loop keeps: those that have not
\* expired at the time the clock showed when the loop came to them.
Live(c, clock) == {id \in DOMAIN c.usersByID : ~Expired(c.usersByID[id], clock[id])}

\* Cache.GetAll(), the clock reading clock[id] at the entry under id: the
\* users of the entries kept.  Go returns them as a slice in map order; here
\* each is kept under the id it was found at.
CacheGetAll(c, clock) == [id \in Live(c, clock) |-> c.usersByID[id].User]

\* A GetCount that returns len(usersByID), expired entries included.
CacheGetCountAll(c, clock) == Cardinality(DOMAIN c.usersByID)

\* Cache.GetCount(), the clock reading clock[id] at the entry under id.
CacheGetCount(c, clock) == Cardinality(Live(c, clock))

\* A Clear that empties the two maps and keeps the old LRU index.
CacheClearMaps(c) == [c EXCEPT !.usersByID = EmptyMap, !.usersByEmail = EmptyMap]

\* Cache.Clear()
CacheClear(c) ==
  [c EXCEPT !.usersByID = EmptyMap, !.usersByEmail = EmptyMap, !.lru = NewLRUManager]

\* ---------------------------------------------------------------- state
VARIABLES
  usersByID,     \* Cache.usersByID: id -> *User
  usersByEmail,  \* Cache.usersByEmail: email -> *User
  lru,           \* Cache.lru: the LRUManager and its nodes
  maxSize,       \* Cache.maxSize
  now,           \* time.Now()
  ret,           \* the call made at this instant, if any: its name, argument and what it returned
  touched,       \* history: the ids in usersByID, the last touched first
  setAt,         \* history: for each id in usersByID, when it was last Set
  setAtEmail,    \* history: for each email in usersByEmail, when it was last Set
  storage,       \* Validator.storage: the rows the UserStorage holds, in their order
  cacheOn,       \* Validator.cache != nil
  gone,          \* history: the users Del took from the Storage, not added since
  threads,       \* for each concurrent caller, the call it is in and where in it
  mutex          \* Cache.mutex: the writer that has it and the readers that hold it

cacheVars == <<usersByID, usersByEmail, lru, maxSize>>
histVars == <<touched, setAt, setAtEmail>>
valVars == <<storage, cacheOn, gone>>
conVars == <<threads, mutex>>
vars ==
  <<usersByID, usersByEmail, lru, maxSize, now, ret, touched, setAt, setAtEmail,
    storage, cacheOn, gone, threads, mutex>>

\* The Cache object as the operators above take it.
C ==
  [usersByID |-> usersByID, usersByEmail |-> usersByEmail, lru |-> lru,
   maxSize |-> maxSize]

\* The ids in seq that are in keep, in the order of seq.
Keep(seq, keep) == LET in(k) == k \in keep IN SelectSeq(seq, in)

\* The call leaves the Cache as c, having touched the ids in ids (one or none)
\* and Set the ids in setIds and the emails in setEmails; the collector runs.
Becomes(c, ids, setIds, setEmails) ==
  \E d \in {Collect(c)} :
     /\ usersByID' = d.usersByID
     /\ usersByEmail' = d.usersByEmail
     /\ lru' = d.lru
     /\ maxSize' = d.maxSize
     /\ touched' = Keep(KeyOrder, ids \cap DOMAIN d.usersByID)
                     \o Keep(touched, DOMAIN d.usersByID \ ids)
     /\ setAt' = [id \in DOMAIN d.usersByID |-> IF id \in setIds THEN now ELSE setAt[id]]
     /\ setAtEmail' = [e \in DOMAIN d.usersByEmail |->
                         IF e \in setEmails THEN now ELSE setAtEmail[e]]

\* A call's record; the fields a call does not return keep these values.
\* size is len(usersByID) when the call was made, clock what time.Now()
\* returned at each entry the call's loop visited.
Call(op, arg) ==
  [op |-> op, arg |-> arg, found |-> FALSE, user |-> NoUser, count |-> 0,
   all |-> EmptyMap, size |-> Cardinality(DOMAIN usersByID), err |-> "nil",
   calls |-> <<>>, clock |-> EmptyMap, alone |-> TRUE]

\* The callers that may be in a call at once.
Threads == 1..MaxThreads
NoThread == 0

\* A caller that is in no call, and the mutex nobody has.
NoCall == [op |-> "-", id |-> NoID, email |-> "-", user |-> NoUser]
Idle == [t \in Threads |-> [at |-> "idle", call |-> NoCall]]
Unlocked == [w |-> NoThread, readers |-> {}]

Init ==
  /\ maxSize \in Capacities
  /\ usersByID = NewCache(maxSize).usersByID
  /\ usersByEmail = NewCache(maxSize).usersByEmail
  /\ lru = NewCache(maxSize).lru
  /\ now = 0
  /\ ret = [op |-> "NewCache", arg |-> NoID, found |-> FALSE, user |-> NoUser,
            count |-> 0, all |-> EmptyMap, size |-> 0, err |-> "nil",
            calls |-> <<>>, clock |-> EmptyMap, alone |-> TRUE]
  /\ touched = <<>>
  /\ setAt = EmptyMap
  /\ setAtEmail = EmptyMap
  /\ storage = <<>>
  /\ cacheOn = TRUE
  /\ gone = {}
  /\ threads = Idle
  /\ mutex = Unlocked

\* The nodes left after the call fit on the heap.
Room == Cardinality(DOMAIN lru'.nodes) <= MaxObj

Set(id, user) ==
  /\ Becomes(CacheSet(C, id, user, now), {id}, {id}, {user.Email})
  /\ Room
  /\ ret' = [Call("Set", id) EXCEPT !.user = user]
  /\ UNCHANGED <<now, valVars, conVars>>

Get(id) ==
  \E r \in {CacheGet(C, id, now)} :
     /\ Becomes(r.c, IF r.found THEN {id} ELSE {}, {}, {})
     /\ ret' = [Call("Get", id) EXCEPT !.found = r.found, !.user = r.user]
     /\ UNCHANGED <<now, valVars, conVars>>

\* The ids under which usersByID holds the very object usersByEmail[email] is.
IdsOf(c, email) ==
  IF email \in DOMAIN c.usersByEmail
    THEN {id \in DOMAIN c.usersByID : c.usersByID[id] = c.usersByEmail[email]}
    ELSE {}

GetByEmail(email) ==
  \E r \in {CacheGetByEmail(C, email, now)} :
     /\ Becomes(r.c, IF r.found THEN IdsOf(C, email) ELSE {}, {}, {})
     /\ ret' = [Call("GetByEmail", email) EXCEPT !.found = r.found, !.user = r.user]
     /\ UNCHANGED <<now, valVars, conVars>>

Delete(id) ==
  /\ Becomes(CacheDelete(C, id), {}, {}, {})
  /\ ret' = Call("Delete", id)
  /\ UNCHANGED <<now, valVars, conVars>>

DeleteByEmail(email) ==
  /\ \E hit \in ScanHits(C, email) :
       Becomes(CacheDeleteByEmail(C, email, hit), {}, {}, {})
  /\ ret' = Call("DeleteByEmail", email)
  /\ UNCHANGED <<now, valVars, conVars>>

\* A GetAll that also drops the expired entries it skips from usersByID.
GetAllPurging ==
  \E clock \in Clocks(C, now) :
     /\ Becomes([C EXCEPT !.usersByID = [id \in Live(C, clock) |-> C.usersByID[id]]],
                {}, {}, {})
     /\ ret' = [Call("GetAll", NoID) EXCEPT !.all = CacheGetAll(C, clock), !.clock = clock]
     /\ now' = Last(clock, now)
     /\ UNCHANGED <<valVars, conVars>>

\* The clock may move on while the loop runs; the call returns at the time of
\* its last reading.
GetAll ==
  \E clock \in Clocks(C, now) :
     /\ ret' = [Call("GetAll", NoID) EXCEPT !.all = CacheGetAll(C, clock), !.clock = clock]
     /\ now' = Last(clock, now)
     /\ UNCHANGED <<cacheVars, histVars, valVars, conVars>>

GetCount ==
  \E clock \in Clocks(C, now) :
     /\ ret' = [Call("GetCount", NoID) EXCEPT
                  !.count = CacheGetCount(C, clock), !.clock = clock]
     /\ now' = Last(clock, now)
     /\ UNCHANGED <<cacheVars, histVars, valVars, conVars>>

Clear ==
  /\ Becomes(CacheClear(C), {}, {}, {})
  /\ ret' = Call("Clear", NoID)
  /\ UNCHANGED <<now, valVars, conVars>>

\* Time passes between calls; what the last call returned is then in the past.
Tick ==
  /\ now < MaxTime
  /\ now' = now + 1
  /\ ret' = Call("Tick", NoID)
  /\ UNCHANGED <<cacheVars, histVars, valVars, conVars>>

Next ==
  \/ \E id \in Keys, user \in Users : Set(id, user)
  \/ \E id \in Keys : Get(id)
  \/ \E email \in Emails : GetByEmail(email)
  \/ \E id \in Keys : Delete(id)
  \/ \E email \in Emails : DeleteByEmail(email)
  \/ GetAll
  \/ GetCount
  \/ Clear
  \/ Tick

Spec == Init /\ [][Next]_vars

\* --------------------------------------------------------------- Storage
\* The error value nil.
NoErr == "nil"

\* What the database answers to a statement: it runs, or it fails with an
\* error the driver tells apart as a lost connection, a duplicate key, or
\* neither.
ReadAnswers == {"ok", "connection", "failure"}

\* The table has a row with the user's id or the user's email.
Taken(st, user) ==
  \E i \in 1..Len(st) : st[i].ID = user.ID \/ st[i].Email = user.Email

\* An INSERT runs unless a row has the id or the email already.
InsertAnswers(st, user) ==
  (IF Taken(st, user) THEN {"duplicate"} ELSE {"ok"}) \cup {"connection", "failure"}

\* The rows of st that pass the test, in the order of st.
RowsWithID(st, id) == LET is(row) == row.ID = id IN SelectSeq(st, is)
RowsWithEmail(st, email) == LET is(row) == row.Email = email IN SelectSeq(st, is)
RowsWithoutEmail(st, email) == LET isNot(row) == row.Email # email IN SelectSeq(st, isNot)

\* What a SELECT of one row returned to the Storage method: the row, or no
\* rows, or the database's error.
Fetched(rows, db) ==
  IF db = "ok"
    THEN IF Len(rows) = 0
           THEN [user |-> NoUser, err |-> "user not found"]
           ELSE [user |-> rows[1], err |-> NoErr]
    ELSE IF db = "connection"
           THEN [user |-> NoUser, err |-> "database connection error"]
           ELSE [user |-> NoUser, err |-> "database query error"]

StorageGetUserByID(st, id, db) == Fetched(RowsWithID(st, id), db)

StorageGetUserByEmail(st, email, db) == Fetched(RowsWithEmail(st, email), db)

StorageGetUsers(st, offset, limit, db) ==
  IF db = "ok"
    THEN [users |-> SubSeq(st, offset + 1,
                           IF offset + limit < Len(st) THEN offset + limit ELSE Len(st)),
          err |-> NoErr]
    ELSE IF db = "connection"
           THEN [users |-> <<>>, err |-> "database connection error"]
           ELSE [users |-> <<>>, err |-> "database query error"]

StorageAddUser(st, user, db) ==
  IF user.Kind # "vless"
    THEN [storage |-> st, err |-> "not a VLESS user"]
    ELSE IF db = "ok"
           THEN [storage |-> Append(st, user), err |-> NoErr]
           ELSE IF db = "duplicate"
                  THEN [storage |-> st, err |-> "user already exists"]
                  ELSE [storage |-> st, err |-> "database insert error"]

StorageDelUser(st, email, db) ==
  IF db = "ok"
    THEN [storage |-> RowsWithoutEmail(st, email), err |-> NoErr]
    ELSE IF db = "connection"
           THEN [storage |-> st, err |-> "database connection error"]
           ELSE [storage |-> st, err |-> "database delete error"]

StorageGetCount(st, db) ==
  IF db = "ok"
    THEN [count |-> Len(st), err |-> NoErr]
    ELSE IF db = "connection"
           THEN [count |-> 0, err |-> "database connection error"]
           ELSE [count |-> 0, err |-> "database count query error"]

\* ------------------------------------------------------------- Validator
\* A call the Validator made on its Storage or its Cache.
Made(fn, arg, err) == [fn |-> fn, arg |-> arg, err |-> err]

\* The calls among calls that went to the Storage.
StorageFns ==
  {"AddUser", "DelUser", "GetUserByID", "GetUserByEmail", "GetUsers", "GetCount", "Close"}
StorageCalls(calls) == LET is(m) == m.fn \in StorageFns IN SelectSeq(calls, is)
CacheWrites(calls) == LET is(m) == m.fn \in {"cache.Set", "cache.DeleteByEmail", "cache.Clear"} IN SelectSeq(calls, is)

\* A method of the Validator holds no lock of its own: it is a call on the
\* Cache, a call on the Storage and a call on the Cache again, and other
\* callers run in between.  A caller in a call is at its first call on the
\* Cache ("cache"), at its call on the Storage ("storage") or at its last call
\* on the Cache ("fill").  calls are the calls it has made so far, got the
\* user the Storage returned, offset and all the variables of GetAll's loop,
\* size len(usersByID) when the call began, and alone whether no other caller
\* has been in a call since this call began.
Returned ==
  [at |-> "idle", call |-> NoCall, got |-> NoUser, calls |-> <<>>, offset |-> 0,
   all |-> <<>>, size |-> 0, alone |-> TRUE]

\* What one step of a call leaves: the Storage, the Cache, where the caller
\* is next ("idle" when the call has returned), the calls made in the step,
\* and what the call returns or keeps.
Goes(st, c, at, made) ==
  [storage |-> st, c |-> c, at |-> at, made |-> made, got |-> NoUser,
   user |-> NoUser, err |-> NoErr, all |-> <<>>, offset |-> 0, count |-> 0,
   clock |-> EmptyMap]

\* The step is the call's last: it returns err.
Returns(st, c, made, err) == [Goes(st, c, "idle", made) EXCEPT !.err = err]

\* An Add that hands the user to the Storage without looking at its account.
ValidatorAddUnchecked(st, c, on, th, db, t) ==
  LET user == th.call.user
  IN IF th.at = "storage"
       THEN LET r == StorageAddUser(st, user, db)
                added == <<Made("AddUser", user.ID, r.err)>>
            IN IF r.err # NoErr THEN Returns(r.storage, c, added, r.err)
               ELSE IF on THEN Goes(r.storage, c, "fill", added)
               ELSE Returns(r.storage, c, added, NoErr)
       ELSE Returns(st, CacheSet(c, user.ID, user, t),
                    <<Made("cache.Set", user.ID, NoErr)>>, NoErr)

\* An Add that writes the user to the Storage and leaves the Cache alone.
ValidatorAddStorageOnly(st, c, on, th, db, t) ==
  LET user == th.call.user
  IN IF user.Kind # "vless" THEN Returns(st, c, <<>>, "not a VLESS user")
     ELSE LET r == StorageAddUser(st, user, db)
          IN Returns(r.storage, c, <<Made("AddUser", user.ID, r.err)>>, r.err)

\* The next step of Validator.Add by the caller th, on storage st and cache c
\* (on: v.cache != nil) at time t, the database answering db.
ValidatorAdd(st, c, on, th, db, t) ==
  LET user == th.call.user
  IN IF th.at = "storage"
       THEN IF user.Kind # "vless" THEN Returns(st, c, <<>>, "not a VLESS user")
            ELSE \* v.storage.AddUser
                 LET r == StorageAddUser(st, user, db)
                     added == <<Made("AddUser", user.ID, r.err)>>
                 IN IF r.err # NoErr THEN Returns(r.storage, c, added, r.err)
                    ELSE IF on THEN Goes(r.storage, c, "fill", added)
                    ELSE Returns(r.storage, c, added, NoErr)
       ELSE \* v.cache.Set
            Returns(st, CacheSet(c, user.ID, user, t),
                    <<Made("cache.Set", user.ID, NoErr)>>, NoErr)

\* A Get that returns what the Storage fetched without a Set on the Cache.
ValidatorGetNoBackfill(st, c, on, th, db, t) ==
  LET id == th.call.id
  IN IF th.at = "cache"
       THEN LET hit == CacheGet(c, id, t)
                asked == <<Made("cache.Get", id, NoErr)>>
            IN IF hit.found
                 THEN [Returns(st, hit.c, asked, NoErr) EXCEPT !.user = hit.user]
                 ELSE Goes(st, hit.c, "storage", asked)
       ELSE LET f == StorageGetUserByID(st, id, db)
            IN [Returns(st, c, <<Made("GetUserByID", id, f.err)>>, NoErr)
                  EXCEPT !.user = IF f.err # NoErr THEN NoUser ELSE f.user]

\* The next step of Validator.Get.
ValidatorGet(st, c, on, th, db, t) ==
  LET id == th.call.id
  IN IF th.at = "cache"
       THEN \* v.cache.Get
            LET hit == CacheGet(c, id, t)
                asked == <<Made("cache.Get", id, NoErr)>>
            IN IF hit.found
                 THEN [Returns(st, hit.c, asked, NoErr) EXCEPT !.user = hit.user]
                 ELSE Goes(st, hit.c, "storage", asked)
     ELSE IF th.at = "storage"
       THEN \* v.storage.GetUserByID
            LET f == StorageGetUserByID(st, id, db)
                made == <<Made("GetUserByID", id, f.err)>>
            IN IF f.err # NoErr THEN Returns(st, c, made, NoErr)
               ELSE IF f.user # NoUser /\ on
                      THEN [Goes(st, c, "fill", made) EXCEPT !.got = f.user]
                      ELSE [Returns(st, c, made, NoErr) EXCEPT !.user = f.user]
       ELSE \* v.cache.Set
            [Returns(st, CacheSet(c, id, th.got, t),
                     <<Made("cache.Set", id, NoErr)>>, NoErr)
               EXCEPT !.user = th.got]

\* A GetByEmail that asks the Storage a second time when the first fetch
\* returned an error, the second fetch running.
ValidatorGetByEmailRetrying(st, c, on, th, db, t) ==
  LET email == th.call.email
  IN IF th.at = "cache"
       THEN LET hit == CacheGetByEmail(c, email, t)
                asked == <<Made("cache.GetByEmail", email, NoErr)>>
            IN IF hit.found
                 THEN [Returns(st, hit.c, asked, NoErr) EXCEPT !.user = hit.user]
                 ELSE Goes(st, hit.c, "storage", asked)
     ELSE IF th.at = "storage"
       THEN LET f == StorageGetUserByEmail(st, email, db)
                g == StorageGetUserByEmail(st, email, "ok")
                made == <<Made("GetUserByEmail", email, f.err),
                          Made("GetUserByEmail", email, g.err)>>
            IN IF g.err # NoErr THEN Returns(st, c, made, NoErr)
               ELSE IF on
                      THEN [Goes(st, c, "fill", made) EXCEPT !.got = g.user]
                      ELSE [Returns(st, c, made, NoErr) EXCEPT !.user = g.user]
       ELSE [Returns(st, CacheSet(c, th.got.ID, th.got, t),
                     <<Made("cache.Set", th.got.ID, NoErr)>>, NoErr)
               EXCEPT !.user = th.got]

\* The next step of Validator.GetByEmail.
ValidatorGetByEmail(st, c, on, th, db, t) ==
  LET email == th.call.email
  IN IF th.at = "cache"
       THEN \* v.cache.GetByEmail
            LET hit == CacheGetByEmail(c, email, t)
                asked == <<Made("cache.GetByEmail", email, NoErr)>>
            IN IF hit.found
                 THEN [Returns(st, hit.c, asked, NoErr) EXCEPT !.user = hit.user]
                 ELSE Goes(st, hit.c, "storage", asked)
     ELSE IF th.at = "storage"
       THEN \* v.storage.GetUserByEmail
            LET f == StorageGetUserByEmail(st, email, db)
                made == <<Made("GetUserByEmail", email, f.err)>>
            IN IF f.err # NoErr THEN Returns(st, c, made, NoErr)
               ELSE IF f.user # NoUser /\ on /\ f.user.Kind = "vless"
                      THEN [Goes(st, c, "fill", made) EXCEPT !.got = f.user]
                      ELSE [Returns(st, c, made, NoErr) EXCEPT !.user = f.user]
       ELSE \* v.cache.Set
            [Returns(st, CacheSet(c, th.got.ID, th.got, t),
                     <<Made("cache.Set", th.got.ID, NoErr)>>, NoErr)
               EXCEPT !.user = th.got]

\* limit in GetAll.
Limit == 100

\* A GetAll that pages through the Storage whether or not there is a Cache.
ValidatorGetAllFromStorage(st, c, on, th, db, clock) ==
  LET r == StorageGetUsers(st, th.offset, Limit, db)
      made == <<Made("GetUsers", th.offset, r.err)>>
  IN IF r.err # NoErr THEN Returns(st, c, made, NoErr)
     ELSE IF Len(r.users) = 0 THEN [Returns(st, c, made, NoErr) EXCEPT !.all = th.all]
     ELSE IF Len(r.users) < Limit
       THEN [Returns(st, c, made, NoErr) EXCEPT !.all = th.all \o r.users]
     ELSE [Goes(st, c, "storage", made) EXCEPT
             !.all = th.all \o r.users, !.offset = th.offset + Limit]

\* A GetAll that asks the Storage for the first page and returns it.
ValidatorGetAllFirstPage(st, c, on, th, db, clock) ==
  LET r == StorageGetUsers(st, th.offset, Limit, db)
  IN [Returns(st, c, <<Made("GetUsers", th.offset, r.err)>>, NoErr)
        EXCEPT !.all = IF r.err # NoErr THEN <<>> ELSE r.users]

\* The next step of Validator.GetAll: the Cache's GetAll, the clock reading
\* clock[id] at the entry under id, or one turn of the loop over the pages
\* of the Storage.
ValidatorGetAll(st, c, on, th, db, clock) ==
  IF th.at = "cache"
    THEN \* v.cache.GetAll
         [Returns(st, c, <<Made("cache.GetAll", NoID, NoErr)>>, NoErr)
            EXCEPT !.all = CacheGetAll(c, clock), !.clock = clock]
    ELSE \* v.storage.GetUsers
         LET r == StorageGetUsers(st, th.offset, Limit, db)
             made == <<Made("GetUsers", th.offset, r.err)>>
         IN IF r.err # NoErr THEN Returns(st, c, made, NoErr)
            ELSE IF Len(r.users) = 0
              THEN [Returns(st, c, made, NoErr) EXCEPT !.all = th.all]
            ELSE IF Len(r.users) < Limit
              THEN [Returns(st, c, made, NoErr) EXCEPT !.all = th.all \o r.users]
            ELSE [Goes(st, c, "storage", made) EXCEPT
                    !.all = th.all \o r.users, !.offset = th.offset + Limit]

\* A Del that drops the email from the Cache whatever DelUser returned.
ValidatorDelEager(st, c, on, th, db, hit) ==
  LET email == th.call.email
  IN IF th.at = "storage"
       THEN LET r == StorageDelUser(st, email, db)
                deleted == <<Made("DelUser", email, r.err)>>
            IN IF r.err # NoErr
                 THEN IF on
                        THEN Returns(r.storage, CacheDeleteByEmail(c, email, hit),
                                     Append(deleted, Made("cache.DeleteByEmail", email, NoErr)),
                                     r.err)
                        ELSE Returns(r.storage, c, deleted, r.err)
                 ELSE IF on THEN Goes(r.storage, c, "fill", deleted)
                 ELSE Returns(r.storage, c, deleted, NoErr)
       ELSE Returns(st, CacheDeleteByEmail(c, email, hit),
                    <<Made("cache.DeleteByEmail", email, NoErr)>>, NoErr)

\* A Del that deletes from the Storage and leaves the Cache alone.
ValidatorDelStorageOnly(st, c, on, th, db, hit) ==
  LET r == StorageDelUser(st, th.call.email, db)
  IN Returns(r.storage, c, <<Made("DelUser", th.call.email, r.err)>>, r.err)

\* The next step of Validator.Del; the scan of DeleteByEmail, if it runs,
\* stops at id hit.
ValidatorDel(st, c, on, th, db, hit) ==
  LET email == th.call.email
  IN IF th.at = "storage"
       THEN \* v.storage.DelUser
            LET r == StorageDelUser(st, email, db)
                deleted == <<Made("DelUser", email, r.err)>>
            IN IF r.err # NoErr THEN Returns(r.storage, c, deleted, r.err)
               ELSE IF on THEN Goes(r.storage, c, "fill", deleted)
               ELSE Returns(r.storage, c, deleted, NoErr)
       ELSE \* v.cache.DeleteByEmail
            Returns(st, CacheDeleteByEmail(c, email, hit),
                    <<Made("cache.DeleteByEmail", email, NoErr)>>, NoErr)

\* Validator.GetCount, one step: the Cache's GetCount, the clock reading
\* clock[id] at the entry under id, or the Storage's.
ValidatorGetCount(st, c, on, th, db, clock) ==
  IF th.at = "cache"
    THEN [Returns(st, c, <<Made("cache.GetCount", NoID, NoErr)>>, NoErr)
            EXCEPT !.count = CacheGetCount(c, clock), !.clock = clock]
    ELSE LET r == StorageGetCount(st, db)
         IN [Returns(st, c, <<Made("GetCount", NoID, r.err)>>, NoErr)
               EXCEPT !.count = IF r.err # NoErr THEN 0 ELSE r.count]

\* SQLStorage.Close, db.Close answering db.
StorageClose(db) ==
  IF db = "ok" THEN NoErr ELSE "failed to close database connection"

\* A Close that closes the Storage first and clears the Cache only when that
\* returned nil.
ValidatorCloseStorageFirst(st, c, on, th, closer, db) ==
  IF th.at = "cache"
    THEN IF closer
           THEN IF StorageClose(db) # NoErr
                  THEN Returns(st, c, <<Made("Close", NoID, StorageClose(db))>>,
                               StorageClose(db))
                  ELSE Goes(st, c, "storage", <<Made("Close", NoID, NoErr)>>)
           ELSE Goes(st, c, "storage", <<>>)
    ELSE IF on
           THEN Returns(st, CacheClear(c), <<Made("cache.Clear", NoID, NoErr)>>, NoErr)
           ELSE IF closer
                  THEN Returns(st, c, <<Made("Close", NoID, StorageClose(db))>>,
                               StorageClose(db))
                  ELSE Returns(st, c, <<>>, NoErr)

\* The next step of Validator.Close; closer: the Storage is an io.Closer.
ValidatorClose(st, c, on, th, closer, db) ==
  IF th.at = "cache"
    THEN \* v.cache.Clear
         Goes(st, CacheClear(c), "storage", <<Made("cache.Clear", NoID, NoErr)>>)
    ELSE IF closer
           THEN \* closer.Close
                Returns(st, c, <<Made("Close", NoID, StorageClose(db))>>, StorageClose(db))
           ELSE Returns(st, c, <<>>, NoErr)

\* The users Add is called with: the users above and one more VLESS user,
\* under the email of the first and the id of the second.
Added == Users \cup {[Email |-> "e1", Kind |-> "vless", ID |-> "b"]}

\* The calls a caller makes on the Validator.
ValidatorCalls ==
  {[op |-> "Add", id |-> u.ID, email |-> u.Email, user |-> u] : u \in Added}
  \cup {[op |-> "Get", id |-> id, email |-> "-", user |-> NoUser] : id \in Keys}
  \cup {[op |-> o, id |-> NoID, email |-> e, user |-> NoUser] :
          o \in {"GetByEmail", "Del"}, e \in Emails}
  \cup {[op |-> o, id |-> NoID, email |-> "-", user |-> NoUser] :
          o \in {"GetAll", "GetCount", "Close"}}

\* The tables the Storage may hold when NewValidator is given it.
Tables ==
  {<<>>,
   <<[Email |-> "e1", Kind |-> "vless", ID |-> "a"]>>,
   <<[Email |-> "e1", Kind |-> "vless", ID |-> "a"],
     [Email |-> "e2", Kind |-> "vless", ID |-> "b"]>>}

\* The state NewValidator returns: the Storage as given, and a new Cache when
\* cacheSettings is not nil.
InitV ==
  /\ cacheOn \in BOOLEAN
  /\ maxSize \in (IF cacheOn THEN Capacities ELSE {0})
  /\ usersByID = NewCache(maxSize).usersByID
  /\ usersByEmail = NewCache(maxSize).usersByEmail
  /\ lru = NewCache(maxSize).lru
  /\ storage \in Tables
  /\ gone = {}
  /\ threads = [t \in Threads |-> Returned]
  /\ mutex = Unlocked
  /\ now = 0
  /\ ret = [op |-> "NewValidator", arg |-> NoID, found |-> FALSE, user |-> NoUser,
            count |-> 0, all |-> EmptyMap, size |-> 0, err |-> NoErr,
            calls |-> <<>>, clock |-> EmptyMap, alone |-> TRUE]
  /\ touched = <<>>
  /\ setAt = EmptyMap
  /\ setAtEmail = EmptyMap

\* The Validator's call leaves the Cache as c; the collector runs.  The
\* history variables belong to the Cache's own calls and stay as they are.
Leaves(c) ==
  \E d \in {Collect(c)} :
     /\ usersByID' = d.usersByID
     /\ usersByEmail' = d.usersByEmail
     /\ lru' = d.lru
     /\ maxSize' = d.maxSize
     /\ UNCHANGED histVars

\* No call has returned at this instant: a call began or is under way.
Pending == [Call("-", NoID) EXCEPT !.size = 0]

\* The name under which ret has a call of the Validator, and its argument.
Named(call) ==
  CASE call.op = "Add" -> "Validator.Add"
    [] call.op = "Get" -> "Validator.Get"
    [] call.op = "GetByEmail" -> "Validator.GetByEmail"
    [] call.op = "GetAll" -> "Validator.GetAll"
    [] call.op = "Del" -> "Validator.Del"
    [] call.op = "GetCount" -> "Validator.GetCount"
    [] call.op = "Close" -> "Validator.Close"
Argument(call) ==
  IF call.op \in {"Add", "Get"} THEN call.id
  ELSE IF call.op \in {"GetByEmail", "Del"} THEN call.email
  ELSE NoID

\* No caller is in a call.
Quiet == \A t \in Threads : threads[t].at = "idle"

\* A caller that has made the call and is at its first call on the Cache or,
\* when the method begins with the Storage or there is no Cache, on the
\* Storage.
Begun(call) ==
  [Returned EXCEPT
     !.at = IF cacheOn /\ call.op \notin {"Add", "Del"} THEN "cache" ELSE "storage",
     !.call = call,
     !.size = Cardinality(DOMAIN usersByID),
     !.alone = Quiet]

\* Caller t makes the call.  The callers in a call from now on have company.
Begin(t, call) ==
  /\ threads[t].at = "idle"
  /\ threads' = [u \in Threads |->
                   IF u = t THEN Begun(call)
                   ELSE IF threads[u].at = "idle" THEN threads[u]
                   ELSE [threads[u] EXCEPT !.alone = FALSE]]
  /\ ret' = Pending
  /\ UNCHANGED <<cacheVars, histVars, now, valVars, mutex>>

\* The rows Del has taken from the Storage and Add has not put back since,
\* after a step that made the calls made.
Gone(call, made) ==
  IF made # <<>> /\ made[1].fn = "AddUser" /\ made[1].err = NoErr
    THEN gone \ {call.user}
  ELSE IF made # <<>> /\ made[1].fn = "DelUser" /\ made[1].err = NoErr
    THEN gone \cup {storage[i] : i \in {j \in 1..Len(storage) :
                                          storage[j].Email = call.email}}
  ELSE gone

\* Caller t takes the step r of its call: the Storage and the Cache are as
\* the step leaves them, and the caller is at its next call or has returned.
Takes(t, r) ==
  /\ storage' = r.storage
  /\ Leaves(r.c)
  /\ Room
  /\ threads' = [threads EXCEPT ![t] =
                   IF r.at = "idle" THEN Returned
                   ELSE [@ EXCEPT !.at = r.at, !.got = r.got, !.calls = @ \o r.made,
                                  !.offset = r.offset, !.all = r.all]]
  /\ ret' = IF r.at = "idle"
              THEN [op |-> Named(threads[t].call), arg |-> Argument(threads[t].call),
                    found |-> r.user # NoUser,
                    user |-> IF threads[t].call.op = "Add"
                               THEN threads[t].call.user ELSE r.user,
                    count |-> r.count, all |-> r.all, size |-> threads[t].size,
                    err |-> r.err, calls |-> threads[t].calls \o r.made,
                    clock |-> r.clock, alone |-> threads[t].alone]
              ELSE Pending
  /\ gone' = Gone(threads[t].call, r.made)
  /\ now' = Last(r.clock, now)
  /\ UNCHANGED <<cacheOn, mutex>>

\* Caller t is in a call of the method op.
In(t, op) == threads[t].at # "idle" /\ threads[t].call.op = op

VAdd(t) ==
  /\ In(t, "Add")
  /\ \E db \in InsertAnswers(storage, threads[t].call.user) :
        Takes(t, ValidatorAdd(storage, C, cacheOn, threads[t], db, now))

VGet(t) ==
  /\ In(t, "Get")
  /\ \E db \in ReadAnswers :
        Takes(t, ValidatorGet(storage, C, cacheOn, threads[t], db, now))

VGetByEmail(t) ==
  /\ In(t, "GetByEmail")
  /\ \E db \in ReadAnswers :
        Takes(t, ValidatorGetByEmail(storage, C, cacheOn, threads[t], db, now))

VGetAll(t) ==
  /\ In(t, "GetAll")
  /\ \E db \in ReadAnswers, clock \in Clocks(C, now) :
        Takes(t, ValidatorGetAll(storage, C, cacheOn, threads[t], db, clock))

VDel(t) ==
  /\ In(t, "Del")
  /\ \E db \in ReadAnswers, hit \in ScanHits(C, threads[t].call.email) :
        Takes(t, ValidatorDel(storage, C, cacheOn, threads[t], db, hit))

VGetCount(t) ==
  /\ In(t, "GetCount")
  /\ \E db \in ReadAnswers, clock \in Clocks(C, now) :
        Takes(t, ValidatorGetCount(storage, C, cacheOn, threads[t], db, clock))

VClose(t) ==
  /\ In(t, "Close")
  /\ \E closer \in BOOLEAN, db \in {"ok", "failure"} :
        Takes(t, ValidatorClose(storage, C, cacheOn, threads[t], closer, db))

NextV ==
  \/ \E t \in Threads, call \in ValidatorCalls : Quiet /\ Begin(t, call)
  \/ \E t \in Threads : VAdd(t)
  \/ \E t \in Threads : VGet(t)
  \/ \E t \in Threads : VGetByEmail(t)
  \/ \E t \in Threads : VGetAll(t)
  \/ \E t \in Threads : VDel(t)
  \/ \E t \in Threads : VGetCount(t)
  \/ \E t \in Threads : VClose(t)
  \/ Tick

\* The Validator over its Storage and its Cache, its callers making their
\* calls one after the other: a call begins when no call is under way.
SpecV == InitV /\ [][NextV]_vars

\* A Storage of n rows, each with an id and an email of its own.
Row(i) == [Email |-> i, Kind |-> "vless", ID |-> i]
Table(n) == [i \in 1..n |-> Row(i)]

\* The calls made on the Validator without a Cache: GetAll and GetCount, and
\* Del of the first row.
PagesCalls ==
  {[op |-> o, id |-> NoID, email |-> "-", user |-> NoUser] : o \in {"GetAll", "GetCount"}}
DelFirst == [op |-> "Del", id |-> NoID, email |-> Row(1).Email, user |-> NoUser]

\* NewValidator with cacheSettings nil, on a Storage of up to MaxRows rows.
InitPages ==
  /\ cacheOn = FALSE
  /\ maxSize = 0
  /\ usersByID = NewCache(maxSize).usersByID
  /\ usersByEmail = NewCache(maxSize).usersByEmail
  /\ lru = NewCache(maxSize).lru
  /\ storage \in {Table(n) : n \in 0..MaxRows}
  /\ gone = {}
  /\ threads = [t \in Threads |-> Returned]
  /\ mutex = Unlocked
  /\ now = 0
  /\ ret = [op |-> "NewValidator", arg |-> NoID, found |-> FALSE, user |-> NoUser,
            count |-> 0, all |-> EmptyMap, size |-> 0, err |-> NoErr,
            calls |-> <<>>, clock |-> EmptyMap, alone |-> TRUE]
  /\ touched = <<>>
  /\ setAt = EmptyMap
  /\ setAtEmail = EmptyMap

NextPages ==
  \/ \E t \in Threads, call \in PagesCalls : Begin(t, call)
  \/ \E t \in Threads : Begin(t, DelFirst)
  \/ \E t \in Threads : VGetAll(t)
  \/ \E t \in Threads : VGetCount(t)
  \/ \E t \in Threads : VDel(t)

\* The Validator without a Cache, its callers listing and counting the rows
\* of its Storage while one of them deletes the first row.
SpecPages == InitPages /\ [][NextPages]_vars

\* ------------------------------------------------- concurrent callers
\* The calls concurrent callers make on the Cache: one user, its id and its
\* email.
LockUsers == {u \in Users : u.ID = "a"}
LockCalls ==
  {[op |-> "Set", id |-> u.ID, email |-> u.Email, user |-> u] : u \in LockUsers}
  \cup {[op |-> o, id |-> u.ID, email |-> "-", user |-> NoUser] :
          o \in {"Get", "Delete"}, u \in LockUsers}
  \cup {[op |-> o, id |-> NoID, email |-> u.Email, user |-> NoUser] :
          o \in {"GetByEmail", "DeleteByEmail"}, u \in LockUsers}
  \cup {[op |-> o, id |-> NoID, email |-> "-", user |-> NoUser] :
          o \in {"Clear", "GetAll", "GetCount"}}

\* A Locking under which Get takes the mutex with RLock.
LockingGetShared(op) == IF op \in {"Get", "GetAll", "GetCount"} THEN "RLock" ELSE "Lock"

\* What the call's first statement is: c.mutex.Lock() or c.mutex.RLock().
Locking(op) == IF op \in {"GetAll", "GetCount"} THEN "RLock" ELSE "Lock"

\* The Caches the body of the call may leave at time t.
Effects(c, call, t) ==
  IF call.op = "Set" THEN {CacheSet(c, call.id, call.user, t)}
  ELSE IF call.op = "Get" THEN {CacheGet(c, call.id, t).c}
  ELSE IF call.op = "GetByEmail" THEN {CacheGetByEmail(c, call.email, t).c}
  ELSE IF call.op = "Delete" THEN {CacheDelete(c, call.id)}
  ELSE IF call.op = "DeleteByEmail"
    THEN {CacheDeleteByEmail(c, call.email, hit) : hit \in ScanHits(c, call.email)}
  ELSE IF call.op = "Clear" THEN {CacheClear(c)}
  ELSE {c}

\* The callers that are at one of the places in ats.
At(ats) == {t \in Threads : threads[t].at \in ats}

\* NewCache, no caller in a call.
InitLock ==
  /\ maxSize \in Capacities
  /\ usersByID = NewCache(maxSize).usersByID
  /\ usersByEmail = NewCache(maxSize).usersByEmail
  /\ lru = NewCache(maxSize).lru
  /\ now = 0
  /\ ret = [op |-> "NewCache", arg |-> NoID, found |-> FALSE, user |-> NoUser,
            count |-> 0, all |-> EmptyMap, size |-> 0, err |-> NoErr,
            calls |-> <<>>, clock |-> EmptyMap, alone |-> TRUE]
  /\ touched = <<>>
  /\ setAt = EmptyMap
  /\ setAtEmail = EmptyMap
  /\ storage = <<>>
  /\ cacheOn = TRUE
  /\ gone = {}
  /\ threads = Idle
  /\ mutex = Unlocked

\* Caller t makes the call and comes to its first statement.  A Set is made
\* only when the heap has room for the node of every Set under way.
Enter(t, call) ==
  /\ threads[t].at = "idle"
  /\ call.op = "Set"
     => Cardinality(DOMAIN lru.nodes)
          + Cardinality({u \in Threads : threads[u].call.op = "Set"}) < MaxObj
  /\ threads' = [threads EXCEPT ![t] = [at |-> Locking(call.op), call |-> call]]
  /\ UNCHANGED <<cacheVars, histVars, now, ret, valVars, mutex>>

\* c.mutex.RLock(): the reader holds the mutex at once unless a writer has
\* it or waits for the readers to leave; then it waits for that writer's Unlock.
RLock(t) ==
  /\ threads[t].at = "RLock"
  /\ IF mutex.w = NoThread
       THEN /\ mutex' = [mutex EXCEPT !.readers = @ \cup {t}]
            /\ threads' = [threads EXCEPT ![t].at = "reading"]
       ELSE /\ threads' = [threads EXCEPT ![t].at = "rwait"]
            /\ UNCHANGED mutex
  /\ UNCHANGED <<cacheVars, histVars, now, ret, valVars>>

\* c.mutex.Lock(), first half: the writer becomes the one writer, and no
\* reader comes in after this.
Lock(t) ==
  /\ threads[t].at = "Lock"
  /\ mutex.w = NoThread
  /\ mutex' = [mutex EXCEPT !.w = t]
  /\ threads' = [threads EXCEPT ![t].at = "drain"]
  /\ UNCHANGED <<cacheVars, histVars, now, ret, valVars>>

\* c.mutex.Lock(), second half: the readers have left, Lock returns.
Locked(t) ==
  /\ threads[t].at = "drain"
  /\ mutex.readers = {}
  /\ threads' = [threads EXCEPT ![t].at = "writing"]
  /\ UNCHANGED <<cacheVars, histVars, now, ret, valVars, mutex>>

\* The statements of the call between taking the mutex and returning.
Body(t) ==
  /\ threads[t].at \in {"writing", "reading"}
  /\ \E c \in Effects(C, threads[t].call, now) : Leaves(c)
  /\ Room
  /\ threads' = [threads EXCEPT ![t].at = IF @ = "writing" THEN "Unlock" ELSE "RUnlock"]
  /\ UNCHANGED <<now, ret, valVars, mutex>>

\* The deferred c.mutex.Unlock() as the call returns: the readers that
\* waited for this writer hold the mutex.
Unlock(t) ==
  /\ threads[t].at = "Unlock"
  /\ mutex' = [w |-> NoThread, readers |-> At({"rwait"})]
  /\ threads' = [u \in Threads |->
                   IF u = t THEN [at |-> "idle", call |-> NoCall]
                   ELSE IF threads[u].at = "rwait" THEN [threads[u] EXCEPT !.at = "reading"]
                   ELSE threads[u]]
  /\ UNCHANGED <<cacheVars, histVars, now, ret, valVars>>

\* The deferred c.mutex.RUnlock() as the call returns.
RUnlock(t) ==
  /\ threads[t].at = "RUnlock"
  /\ mutex' = [mutex EXCEPT !.readers = @ \ {t}]
  /\ threads' = [threads EXCEPT ![t] = [at |-> "idle", call |-> NoCall]]
  /\ UNCHANGED <<cacheVars, histVars, now, ret, valVars>>

\* What caller t does next once it is in a call.
Step(t) ==
  \/ RLock(t)
  \/ Lock(t)
  \/ Locked(t)
  \/ Body(t)
  \/ Unlock(t)
  \/ RUnlock(t)

NextLock ==
  \/ \E t \in Threads, call \in LockCalls : Enter(t, call)
  \/ \E t \in Threads : RLock(t)
  \/ \E t \in Threads : Lock(t)
  \/ \E t \in Threads : Locked(t)
  \/ \E t \in Threads : Body(t)
  \/ \E t \in Threads : Unlock(t)
  \/ \E t \in Threads : RUnlock(t)

\* Concurrent callers of one Cache.  The scheduler runs every caller that can
\* take a step, and sync.Mutex hands the writers' lock to a writer that keeps
\* waiting for it.
SpecLock ==
  /\ InitLock
  /\ [][NextLock]_vars
  /\ \A t \in Threads : WF_vars(Step(t)) /\ SF_vars(Lock(t))

\* ------------------------------------- concurrent callers of the Validator
\* The calls concurrent callers make on the Validator, for one user.
RaceCalls ==
  {[op |-> "Add", id |-> u.ID, email |-> u.Email, user |-> u] : u \in LockUsers}
  \cup {[op |-> "Get", id |-> u.ID, email |-> "-", user |-> NoUser] : u \in LockUsers}
  \cup {[op |-> o, id |-> NoID, email |-> u.Email, user |-> NoUser] :
          o \in {"GetByEmail", "Del"}, u \in LockUsers}
  \cup {[op |-> o, id |-> NoID, email |-> "-", user |-> NoUser] :
          o \in {"GetAll", "GetCount", "Close"}}

\* NewValidator with a Cache, on a Storage that has the user or does not.
InitRace ==
  /\ cacheOn = TRUE
  /\ maxSize \in Capacities
  /\ usersByID = NewCache(maxSize).usersByID
  /\ usersByEmail = NewCache(maxSize).usersByEmail
  /\ lru = NewCache(maxSize).lru
  /\ storage \in {<<>>} \cup {<<u>> : u \in LockUsers}
  /\ gone = {}
  /\ now = 0
  /\ ret = [op |-> "NewValidator", arg |-> NoID, found |-> FALSE, user |-> NoUser,
            count |-> 0, all |-> EmptyMap, size |-> 0, err |-> NoErr,
            calls |-> <<>>, clock |-> EmptyMap, alone |-> TRUE]
  /\ touched = <<>>
  /\ setAt = EmptyMap
  /\ setAtEmail = EmptyMap
  /\ threads = [t \in Threads |-> Returned]
  /\ mutex = Unlocked

NextRace ==
  \/ \E t \in Threads, call \in RaceCalls : Begin(t, call)
  \/ \E t \in Threads : VAdd(t)
  \/ \E t \in Threads : VGet(t)
  \/ \E t \in Threads : VGetByEmail(t)
  \/ \E t \in Threads : VGetAll(t)
  \/ \E t \in Threads : VDel(t)
  \/ \E t \in Threads : VGetCount(t)
  \/ \E t \in Threads : VClose(t)
  \/ Tick

\* Concurrent callers of one Validator with a Cache: a call begins whatever
\* calls are under way, and the steps of the calls interleave.
SpecRace == InitRace /\ [][NextRace]_vars

\* ---------------------------------------------------------------- claims
\* C1: with maxSize = n > 0, usersByID never holds more than n entries,
\* whatever calls were made and however time passed between them.
C1_CapacityBound == maxSize > 0 => Cardinality(DOMAIN usersByID) <= maxSize

\* C2: the entry Set evicts at capacity is the resident entry touched (by its
\* Set, or by a Get or GetByEmail that found it) longest ago.
C2_EvictsLeastRecentlyTouched ==
  \A id \in DOMAIN usersByID \ DOMAIN Evict(C).usersByID :
     id = touched[Len(touched)]

\* C3: a Get(id) that finds its entry, and a GetByEmail(email) that finds its
\* entry, leaves that entry's node at the head of the recency list.
C3_FoundIsPromotedToHead ==
  /\ \A id \in Keys :
        \E r \in {CacheGet(C, id, now)} :
           r.found => r.c.lru.head = r.c.usersByID[id].lruNode
  /\ \A email \in Emails :
        \E r \in {CacheGetByEmail(C, email, now)} :
           r.found => r.c.lru.head = r.c.usersByEmail[email].lruNode

\* C4: every entry usersByID holds is the entry usersByEmail holds under its
\* user's email, and every entry usersByEmail holds is held by usersByID.
C4_DualIndex ==
  /\ \A id \in DOMAIN usersByID :
        /\ usersByID[id].User.Email \in DOMAIN usersByEmail
        /\ usersByEmail[usersByID[id].User.Email] = usersByID[id]
  /\ \A email \in DOMAIN usersByEmail :
        \E id \in DOMAIN usersByID : usersByID[id] = usersByEmail[email]

\* C5: an entry that both maps hold and that has not expired, whatever kind
\* of account its user has, is returned by Get under its id and by GetByEmail
\* under its user's email.
C5_RoundTrip ==
  \A id \in DOMAIN usersByID :
     \E u \in {usersByID[id]} :
        ( /\ ~Expired(u, now)
          /\ u.User.Email \in DOMAIN usersByEmail
          /\ usersByEmail[u.User.Email] = u )
        => /\ CacheGet(C, id, now).found
           /\ CacheGet(C, id, now).user = u.User
           /\ CacheGetByEmail(C, u.User.Email, now).found
           /\ CacheGetByEmail(C, u.User.Email, now).user = u.User

\* C6: once more than TTL has passed since the last Set of an id or of an
\* email, Get and GetByEmail do not find it, GetAll does not return it and
\* GetCount does not count it, whether or not the entry is still in the maps
\* and whenever during its loop GetAll or GetCount reads the clock.
C6_ExpiredIsNotFound ==
  /\ \A id \in DOMAIN setAt :
        now > setAt[id] + TTL
        => /\ ~CacheGet(C, id, now).found
           /\ \A clock \in Clocks(C, now) : id \notin DOMAIN CacheGetAll(C, clock)
  /\ \A email \in DOMAIN setAtEmail :
        now > setAtEmail[email] + TTL => ~CacheGetByEmail(C, email, now).found
  /\ \A clock \in Clocks(C, now) :
        CacheGetCount(C, clock)
          <= Cardinality({id \in DOMAIN setAt : now <= setAt[id] + TTL})

\* GetCount has returned 0 while usersByID held entries, all of them Set more
\* than TTL ago and none purged since.
C6_CountSkipsUnpurged ==
  /\ ret.op = "GetCount"
  /\ ret.count = 0
  /\ ret.size > 0
  /\ usersByID # EmptyMap
  /\ \A id \in DOMAIN setAt : now > setAt[id] + TTL

\* C7 as stated: an entry whose expiry instant is at or before the current
\* time is not found by Get, nor by GetByEmail.
C7_AtOrBeforeIsNotFound ==
  /\ \A id \in DOMAIN usersByID :
        usersByID[id].ExpiresAt <= now => ~CacheGet(C, id, now).found
  /\ \A email \in DOMAIN usersByEmail :
        usersByEmail[email].ExpiresAt <= now => ~CacheGetByEmail(C, email, now).found

\* C7 amended: an entry whose expiry instant is strictly before the current
\* time is not found by Get, nor by GetByEmail; an entry whose expiry instant
\* is the current time is still found by Get.
C7_StrictlyBeforeIsNotFound ==
  /\ \A id \in DOMAIN usersByID :
        /\ usersByID[id].ExpiresAt < now => ~CacheGet(C, id, now).found
        /\ usersByID[id].ExpiresAt = now => CacheGet(C, id, now).found
  /\ \A email \in DOMAIN usersByEmail :
        usersByEmail[email].ExpiresAt < now => ~CacheGetByEmail(C, email, now).found

\* Get has just found an entry at its expiry instant.
C7_FoundAtExpiryInstant ==
  /\ ret.op = "Get"
  /\ ret.found
  /\ ret.arg \in DOMAIN usersByID
  /\ usersByID[ret.arg].ExpiresAt = now

\* C8: Delete(id) and DeleteByEmail(email) on an entry that usersByID holds
\* under id and usersByEmail under its user's email leave Get(id) and
\* GetByEmail(email) reporting not-found and the entry's node out of the LRU
\* index.
C8_DeleteRemovesFromBoth ==
  \A id \in DOMAIN usersByID :
     \E u \in {usersByID[id]} :
        ( /\ u.User.Email \in DOMAIN usersByEmail
          /\ usersByEmail[u.User.Email] = u )
        => \A c1 \in {CacheDelete(C, id)}
                     \cup {CacheDeleteByEmail(C, u.User.Email, hit) :
                              hit \in ScanHits(C, u.User.Email)} :
              /\ ~CacheGet(c1, id, now).found
              /\ ~CacheGetByEmail(c1, u.User.Email, now).found
              /\ u.lruNode \notin Indexed(c1.lru)

\* C9: Delete of an id usersByID does not hold, and DeleteByEmail of an email
\* usersByEmail does not hold, leave the maps and the LRU index as they were.
C9_DeleteAbsentChangesNothing ==
  /\ \A id \in Keys \ DOMAIN usersByID : CacheDelete(C, id) = C
  /\ \A email \in Emails \ DOMAIN usersByEmail :
        \A hit \in ScanHits(C, email) : CacheDeleteByEmail(C, email, hit) = C

\* Delete has just been called with an id usersByID did not hold, though
\* nodeMap holds a node under it and usersByID holds other entries.
C9_DeletedAbsentId ==
  /\ ret.op = "Delete"
  /\ ret.size = Cardinality(DOMAIN usersByID)
  /\ ret.size > 0
  /\ ret.arg \notin DOMAIN usersByID
  /\ ret.arg \in DOMAIN lru.nodeMap

\* C10: Clear leaves both maps and the LRU index empty, so that GetCount is
\* 0, GetAll is empty and no Get or GetByEmail finds anything; a second Clear
\* changes nothing.
C10_ClearResets ==
  \E c1 \in {CacheClear(C)} :
     /\ c1.usersByID = EmptyMap
     /\ c1.usersByEmail = EmptyMap
     /\ c1.lru = NewLRUManager
     /\ \A clock \in Clocks(c1, now) :
           /\ CacheGetCount(c1, clock) = 0
           /\ CacheGetAll(c1, clock) = EmptyMap
     /\ \A id \in Keys : ~CacheGet(c1, id, now).found
     /\ \A email \in Emails : ~CacheGetByEmail(c1, email, now).found
     /\ CacheClear(c1) = c1

\* Clear has just been called on a Cache that held entries.
C10_ClearedNonEmpty ==
  /\ ret.op = "Clear"
  /\ ret.size > 0
  /\ usersByID = EmptyMap
  /\ usersByEmail = EmptyMap
  /\ lru = NewLRUManager

\* C11: at any one instant, the clock standing still while the loops run,
\* GetCount returns the number of users GetAll returns, which is the number
\* of entries of usersByID whose expiry instant has not passed.
C11_CountIsLenOfAll ==
  \A t \in now..MaxTime :
     /\ CacheGetCount(C, Instant(C, t)) = Cardinality(DOMAIN CacheGetAll(C, Instant(C, t)))
     /\ CacheGetCount(C, Instant(C, t))
           = Cardinality({id \in DOMAIN usersByID : usersByID[id].ExpiresAt >= t})

\* GetCount has just returned 1 while usersByID held two entries, one of
\* them past its expiry instant.
C11_CountedOneOfTwo ==
  /\ ret.op = "GetCount"
  /\ ret.count = 1
  /\ ret.size = 2
  /\ ret.clock = Instant(C, now)
  /\ \E id \in DOMAIN usersByID : usersByID[id].ExpiresAt < now

\* C12: a GetAll or GetCount call leaves usersByID, usersByEmail and the LRU
\* index as they were, expired entries included.
C12_ReadsChangeNothing ==
  [][(GetAll \/ GetCount) => UNCHANGED cacheVars]_vars

\* GetAll has just returned fewer users than usersByID holds, and the expired
\* entry it skipped is still in both maps and in the LRU index.
C12_SkippedNotPurged ==
  /\ ret.op = "GetAll"
  /\ Cardinality(DOMAIN ret.all) < Cardinality(DOMAIN usersByID)
  /\ \E id \in DOMAIN usersByID :
        /\ usersByID[id].ExpiresAt < now
        /\ usersByID[id].User.Email \in DOMAIN usersByEmail
        /\ usersByID[id].lruNode \in Indexed(lru)

\* C13: a Validator.Add of a user whose account is not a VLESS account returns
\* the error "not a VLESS user", has called neither the Storage nor the Cache,
\* and leaves the Storage's rows and the Cache as they were.
C13_NonVLESSAddIsRejected ==
  [][(ret'.op = "Validator.Add" /\ ret'.user.Kind # "vless")
     => /\ ret'.err = "not a VLESS user"
        /\ ret'.calls = <<>>
        /\ UNCHANGED <<cacheVars, storage>>]_vars

\* Add has just rejected a user of another kind while the Storage held a row
\* and the Cache an entry.
C13_RejectedWithRowsAndEntries ==
  /\ ret.op = "Validator.Add"
  /\ ret.user.Kind = "other"
  /\ ret.err = "not a VLESS user"
  /\ Len(storage) = 1
  /\ DOMAIN usersByID # {}

\* C14: when AddUser, called by Validator.Add, or DelUser, called by
\* Validator.Del, returns an error (user already exists, database connection
\* error, database insert or delete error), the Validator's call returns that
\* very error, has made no other call, and leaves the Cache as it was.
C14_WriteErrorsPassThrough ==
  [][ret'.op \in {"Validator.Add", "Validator.Del"}
     => \A i \in 1..Len(ret'.calls) :
           (ret'.calls[i].fn \in {"AddUser", "DelUser"} /\ ret'.calls[i].err # NoErr)
           => /\ ret'.err = ret'.calls[i].err
              /\ Len(ret'.calls) = 1
              /\ UNCHANGED cacheVars]_vars

\* Add of a user under an email the Storage has has just returned "user
\* already exists", the Cache holding the email's entry and not the new id.
C14_DuplicateAliasSurfaced ==
  /\ ret.op = "Validator.Add"
  /\ ret.user = [Email |-> "e1", Kind |-> "vless", ID |-> "b"]
  /\ ret.err = "user already exists"
  /\ StorageCalls(ret.calls) = ret.calls
  /\ "e1" \in DOMAIN usersByEmail
  /\ "b" \notin DOMAIN usersByID

\* C15: with a Cache and the callers making their calls one after the other,
\* when Validator.Add(R) has returned nil the Storage has the row of R and
\* usersByID holds R under R's id, so that a Validator.Get of R's id and a
\* Validator.GetByEmail of R's email made next return R from the Cache,
\* whatever the database would answer; and in every Add, AddUser is the first
\* call made and has returned nil before the Cache is called.
C15_AddWritesThrough ==
  (ret.op = "Validator.Add" /\ cacheOn)
  => /\ ret.err = NoErr
        => /\ \E i \in 1..Len(storage) : storage[i] = ret.user
           /\ ret.user.ID \in DOMAIN usersByID
           /\ usersByID[ret.user.ID].User = ret.user
           /\ \A db \in ReadAnswers :
                 \E g \in {ValidatorGet(storage, C, cacheOn,
                                        Begun([op |-> "Get", id |-> ret.user.ID,
                                               email |-> "-", user |-> NoUser]),
                                        db, now)},
                    e \in {ValidatorGetByEmail(storage, C, cacheOn,
                                               Begun([op |-> "GetByEmail", id |-> NoID,
                                                      email |-> ret.user.Email,
                                                      user |-> NoUser]),
                                               db, now)} :
                    /\ g.at = "idle" /\ g.user = ret.user
                    /\ e.at = "idle" /\ e.user = ret.user
     /\ CacheWrites(ret.calls) # <<>>
        => /\ ret.calls[1] = Made("AddUser", ret.user.ID, NoErr)
           /\ StorageCalls(ret.calls) = <<ret.calls[1]>>

\* Add has just returned nil on a Cache of capacity 1 that held the other
\* user: the Storage has both rows, the Cache the added user alone.
C15_AddedAtCapacity ==
  /\ ret.op = "Validator.Add"
  /\ ret.err = NoErr
  /\ cacheOn
  /\ maxSize = 1
  /\ ret.size = 1
  /\ Len(storage) = 2
  /\ DOMAIN usersByID = {ret.user.ID}
  /\ ret.calls = <<Made("AddUser", ret.user.ID, NoErr), Made("cache.Set", ret.user.ID, NoErr)>>

\* C16: with a Cache, a Validator.Get(id) or Validator.GetByEmail(email) that
\* the Cache answers returns the Cache's user and makes no call to the
\* Storage; one that the Cache does not answer goes on to the Storage, and
\* when the Storage returns a user (the row with the id, or with the email)
\* the call sets it in the Cache and returns it, and a Cache.Get of the
\* user's id made as the call returns finds that user.
C16_ReadThrough ==
  [][cacheOn =>
       \A t \in Threads :
          (/\ In(t, "Get") \/ In(t, "GetByEmail")
           /\ threads'[t] # threads[t])
          => LET th == threads[t]
                 get == th.call.op = "Get"
                 hit == IF get THEN CacheGet(C, th.call.id, now)
                        ELSE CacheGetByEmail(C, th.call.email, now)
                 rows == IF get THEN RowsWithID(storage, th.call.id)
                         ELSE RowsWithEmail(storage, th.call.email)
             IN /\ th.at = "cache"
                   => IF hit.found
                        THEN /\ threads'[t].at = "idle"
                             /\ ret'.op = Named(th.call)
                             /\ ret'.user = hit.user
                             /\ StorageCalls(ret'.calls) = <<>>
                        ELSE threads'[t].at = "storage"
                /\ th.at = "storage"
                   => IF threads'[t].at = "idle"
                        THEN /\ ret'.user = NoUser
                             /\ ret'.calls[Len(ret'.calls)].err # NoErr
                        ELSE /\ threads'[t].at = "fill"
                             /\ rows # <<>>
                             /\ threads'[t].got = rows[1]
                /\ th.at = "fill"
                   => /\ threads'[t].at = "idle"
                      /\ ret'.user = th.got
                      /\ CacheGet(C', th.got.ID, now').found
                      /\ CacheGet(C', th.got.ID, now').user = th.got]_vars

\* GetByEmail has just fetched from the Storage a user whose entry had
\* expired, set it in the Cache again and returned it.
C16_BackfilledAfterExpiry ==
  /\ cacheOn
  /\ now > 0
  /\ ret.op = "Validator.GetByEmail"
  /\ ret.size > 0
  /\ ret.calls = <<Made("cache.GetByEmail", ret.arg, NoErr),
                   Made("GetUserByEmail", ret.arg, NoErr),
                   Made("cache.Set", ret.user.ID, NoErr)>>
  /\ ret.user.ID \in DOMAIN usersByID
  /\ usersByID[ret.user.ID].ExpiresAt = now + TTL

\* C17: when GetUserByID, called by Validator.Get, or GetUserByEmail, called
\* by Validator.GetByEmail, returns an error (user not found, database
\* connection error, database query error), the Validator's call returns nil,
\* has made no Set on the Cache, and no step of it has put into the Cache an
\* entry the Cache did not hold.
C17_FailClosedReads ==
  [][/\ (/\ ret'.op \in {"Validator.Get", "Validator.GetByEmail"}
         /\ \E i \in 1..Len(ret'.calls) :
               /\ ret'.calls[i].fn \in {"GetUserByID", "GetUserByEmail"}
               /\ ret'.calls[i].err # NoErr)
        => /\ ret'.user = NoUser
           /\ ret'.err = NoErr
           /\ CacheWrites(ret'.calls) = <<>>
           /\ UNCHANGED cacheVars
     /\ \A t \in Threads :
           (/\ In(t, "Get") \/ In(t, "GetByEmail")
            /\ threads[t].at # "fill"
            /\ threads'[t] # threads[t])
           => /\ \A id \in DOMAIN usersByID' :
                    /\ id \in DOMAIN usersByID
                    /\ usersByID'[id].User = usersByID[id].User
                    /\ usersByID'[id].ExpiresAt = usersByID[id].ExpiresAt
              /\ \A email \in DOMAIN usersByEmail' :
                    /\ email \in DOMAIN usersByEmail
                    /\ usersByEmail'[email].User = usersByEmail[email].User
                    /\ usersByEmail'[email].ExpiresAt = usersByEmail[email].ExpiresAt]_vars

\* GetByEmail has just returned nil for an email the Storage has a row of,
\* the database being unreachable, and the Cache, which holds other entries,
\* has no entry for the email.
C17_UnreachableStoreIsNotFound ==
  /\ cacheOn
  /\ ret.op = "Validator.GetByEmail"
  /\ ret.calls = <<Made("cache.GetByEmail", ret.arg, NoErr),
                   Made("GetUserByEmail", ret.arg, "database connection error")>>
  /\ RowsWithEmail(storage, ret.arg) # <<>>
  /\ ret.user = NoUser
  /\ ret.arg \notin DOMAIN usersByEmail
  /\ DOMAIN usersByID # {}

\* C18: with or without a Cache and the callers making their calls one
\* after the other, once Validator.Del of a user's email has returned nil and
\* until Validator.Add of that user returns nil again, no Validator.Get of the
\* user's id and no Validator.GetByEmail of the user's email returns the
\* user, whatever the database answers and whatever time has passed; the call
\* returns nil unless the Storage has, from a later Add, a row of another
\* user with that id or that email.
C18_DeletedStaysDeleted ==
  \A user \in gone :
     /\ (ret.op = "Validator.Get" /\ ret.arg = user.ID)
        => /\ ret.user # user
           /\ RowsWithID(storage, user.ID) = <<>> => ret.user = NoUser
     /\ (ret.op = "Validator.GetByEmail" /\ ret.arg = user.Email)
        => /\ ret.user # user
           /\ RowsWithEmail(storage, user.Email) = <<>> => ret.user = NoUser

\* Get of the id of a deleted user has just asked the Cache and the Storage
\* and returned nil, the Cache holding another entry.
C18_NotFoundAfterDel ==
  /\ cacheOn
  /\ ret.op = "Validator.Get"
  /\ \E user \in gone : user.ID = ret.arg
  /\ ret.user = NoUser
  /\ ret.calls = <<Made("cache.Get", ret.arg, NoErr),
                   Made("GetUserByID", ret.arg, "user not found")>>
  /\ DOMAIN usersByID # {}

\* C19: with a Cache, Validator.GetAll and Validator.GetCount make no call to
\* the Storage; GetAll returns the users of the Cache's entries that had not
\* expired when its loop read the clock for them, and GetCount their number,
\* so that a user the Storage has and the Cache does not hold, or holds
\* expired, is not returned and not counted.
C19_CacheAnswersGetAllAndCount ==
  cacheOn =>
    /\ ret.op = "Validator.GetAll"
       => /\ StorageCalls(ret.calls) = <<>>
          /\ ret.all = CacheGetAll(C, ret.clock)
          /\ DOMAIN ret.all
               = {id \in DOMAIN usersByID : usersByID[id].ExpiresAt >= ret.clock[id]}
          /\ \A id \in DOMAIN ret.all : ret.all[id] = usersByID[id].User
    /\ ret.op = "Validator.GetCount"
       => /\ StorageCalls(ret.calls) = <<>>
          /\ ret.count = CacheGetCount(C, ret.clock)
          /\ ret.count
               = Cardinality({id \in DOMAIN usersByID :
                                usersByID[id].ExpiresAt >= ret.clock[id]})

\* GetAll has just returned one user while the Storage had two rows and the
\* Cache two entries, one of them expired.
C19_StoredUserNotListed ==
  /\ cacheOn
  /\ ret.op = "Validator.GetAll"
  /\ Len(storage) = 2
  /\ Cardinality(DOMAIN ret.all) = 1
  /\ Cardinality(DOMAIN usersByID) = 2

\* C20: without a Cache, a Validator.GetAll asks GetUsers for the offsets 0,
\* 100, 200, ... with limit 100, in that order, and when GetUsers returns an
\* error for a page, that call is the last and GetAll returns nil.  On a
\* Storage of N rows that no other call changes meanwhile, it stops after the
\* first page of fewer than 100 rows (an empty page when N is a multiple of
\* 100, zero included) and returns the N rows, each once, in the Storage's
\* order.
C20_GetAllPagesThroughStorage ==
  (ret.op = "Validator.GetAll" /\ ~cacheOn)
  => /\ \A i \in 1..Len(ret.calls) :
           /\ ret.calls[i].fn = "GetUsers"
           /\ ret.calls[i].arg = (i - 1) * 100
           /\ ret.calls[i].err # NoErr => i = Len(ret.calls) /\ ret.all = <<>>
     /\ Len(ret.calls) >= 1
     /\ (ret.alone /\ ret.calls[Len(ret.calls)].err = NoErr)
        => /\ ret.all = storage
           /\ \A i, j \in 1..Len(ret.all) : ret.all[i] = ret.all[j] => i = j
           /\ Len(ret.calls) = (Len(storage) \div 100) + 1

\* GetAll has just returned the 101 rows of the Storage, from a full page and
\* a page of one.
C20_SecondPageOfOne ==
  /\ ~cacheOn
  /\ ret.op = "Validator.GetAll"
  /\ ret.alone
  /\ Len(storage) = 101
  /\ Len(ret.all) = 101
  /\ ret.calls = <<Made("GetUsers", 0, NoErr), Made("GetUsers", 100, NoErr)>>

\* C21: a Validator.Close with a Cache calls Clear on the Cache before
\* anything else, and Clear leaves both maps and the LRU index empty; they
\* are empty when Close returns, whether or not the Storage's Close then
\* failed, unless another caller's call ran meanwhile.  When the Storage is a
\* Closer its Close is the last call made and Close returns the error it
\* returned, and otherwise Close returns nil.
C21_CloseClearsThenCloses ==
  /\ \A t \in Threads :
        (In(t, "Close") /\ threads[t].at = "storage")
        => /\ threads[t].calls = <<Made("cache.Clear", NoID, NoErr)>>
           /\ threads[t].alone
              => usersByID = EmptyMap /\ usersByEmail = EmptyMap /\ lru = NewLRUManager
  /\ ret.op = "Validator.Close"
     => /\ Len(ret.calls) >= 1
        /\ ret.calls[1] = Made("cache.Clear", NoID, NoErr)
        /\ ret.alone
           => usersByID = EmptyMap /\ usersByEmail = EmptyMap /\ lru = NewLRUManager
        /\ \A i \in 1..Len(ret.calls) :
              ret.calls[i].fn = "Close"
              => i = Len(ret.calls) /\ ret.err = ret.calls[i].err
        /\ StorageCalls(ret.calls) = <<>> => ret.err = NoErr

\* Close has just returned the error of the Storage's Close, no other call
\* running meanwhile, and the Cache, which held an entry, is empty.
C21_ClearedThoughCloseFailed ==
  /\ ret.op = "Validator.Close"
  /\ ret.alone
  /\ ret.size = 1
  /\ ret.err = "failed to close database connection"
  /\ ret.calls = <<Made("cache.Clear", NoID, NoErr),
                   Made("Close", NoID, "failed to close database connection")>>
  /\ usersByID = EmptyMap

\* C22: the nodes met from head are exactly the nodes nodeMap holds, each
\* under its own key and no two with one key; prev and next of the nodes of
\* the list agree, head has no prev and tail no next; and head and tail are
\* both nil or both set.
C22_LRUStructure ==
  \E list \in {ListNodes(lru)} :
     /\ {lru.nodeMap[k] : k \in DOMAIN lru.nodeMap} = list
     /\ \A k \in DOMAIN lru.nodeMap : lru.nodes[lru.nodeMap[k]].key = k
     /\ \A n, m \in list : lru.nodes[n].key = lru.nodes[m].key => n = m
     /\ \A n \in list :
           /\ lru.nodes[n].next # Nil => lru.nodes[lru.nodes[n].next].prev = n
           /\ lru.nodes[n].prev # Nil => lru.nodes[lru.nodes[n].prev].next = n
           /\ lru.nodes[n].prev = Nil <=> n = lru.head
           /\ lru.nodes[n].next = Nil <=> n = lru.tail
     /\ lru.head = Nil <=> lru.tail = Nil
\* C23: the keys of the nodes of the recency list are exactly the ids
\* usersByID holds, and no two nodes of the list have one key.
C23_OneNodePerEntry ==
  \E list \in {ListNodes(lru)} :
     /\ {lru.nodes[n].key : n \in list} = DOMAIN usersByID
     /\ Cardinality(list) = Cardinality(DOMAIN usersByID)
\* C24: a Get(id) that finds an expired entry under the id, and a
\* GetByEmail(email) that finds an expired entry under the email, leaves
\* usersByID without the entry's id, usersByEmail without its email, and the
\* LRU index (the list and nodeMap) without a node for the id.
C24_ExpiredIsPurgedEverywhere ==
  /\ \A id \in DOMAIN usersByID :
        Expired(usersByID[id], now)
        => \E d \in {CacheGet(C, id, now).c} :
              /\ id \notin DOMAIN d.usersByID
              /\ usersByID[id].User.Email \notin DOMAIN d.usersByEmail
              /\ id \notin DOMAIN d.lru.nodeMap
              /\ \A n \in ListNodes(d.lru) : d.lru.nodes[n].key # id
  /\ \A email \in DOMAIN usersByEmail :
        Expired(usersByEmail[email], now)
        => \E d \in {CacheGetByEmail(C, email, now).c} :
              /\ email \notin DOMAIN d.usersByEmail
              /\ \A id \in IdsOf(C, email) :
                    /\ id \notin DOMAIN d.usersByID
                    /\ id \notin DOMAIN d.lru.nodeMap
                    /\ \A n \in ListNodes(d.lru) : d.lru.nodes[n].key # id
\* C25: when the database fails a statement with an error the driver calls a
\* connection error, each of GetUserByID, GetUserByEmail, GetUsers, AddUser,
\* DelUser and GetCount returns the database connection error, which is not
\* what it returns for another failure; and AddUser returns "user already
\* exists" for an error the driver calls a duplicate key.
C25_ConnectionErrorsClassified ==
  /\ \A id \in Keys :
        /\ StorageGetUserByID(storage, id, "connection").err = "database connection error"
        /\ StorageGetUserByID(storage, id, "failure").err # "database connection error"
  /\ \A email \in Emails :
        /\ StorageGetUserByEmail(storage, email, "connection").err = "database connection error"
        /\ StorageGetUserByEmail(storage, email, "failure").err # "database connection error"
        /\ StorageDelUser(storage, email, "connection").err = "database connection error"
        /\ StorageDelUser(storage, email, "failure").err # "database connection error"
  /\ StorageGetUsers(storage, 0, Limit, "connection").err = "database connection error"
  /\ StorageGetUsers(storage, 0, Limit, "failure").err # "database connection error"
  /\ StorageGetCount(storage, "connection").err = "database connection error"
  /\ StorageGetCount(storage, "failure").err # "database connection error"
  /\ \A user \in {u \in Added : u.Kind = "vless"} :
        /\ StorageAddUser(storage, user, "duplicate").err = "user already exists"
        /\ StorageAddUser(storage, user, "connection").err = "database connection error"
        /\ StorageAddUser(storage, user, "failure").err # "database connection error"
\* C26: a caller that is between Lock and Unlock in Get, GetByEmail, Set,
\* Delete, DeleteByEmail or Clear is the only caller between taking and
\* releasing the mutex; callers that are there together are in GetAll or
\* GetCount; and every caller that waits for the mutex comes to hold it, and
\* every caller that holds it returns.
C26_MutualExclusion ==
  /\ [](\A t \in At({"writing", "Unlock"}) :
           /\ At({"writing", "Unlock", "reading", "RUnlock"}) = {t}
           /\ threads[t].call.op
                \in {"Get", "GetByEmail", "Set", "Delete", "DeleteByEmail", "Clear"})
  /\ [](\A t \in At({"reading", "RUnlock"}) : threads[t].call.op \in {"GetAll", "GetCount"})
  /\ \A t \in Threads :
        /\ (threads[t].at \in {"Lock", "drain", "RLock", "rwait"})
             ~> (threads[t].at \in {"writing", "reading"})
        /\ (threads[t].at \in {"writing", "reading"}) ~> (threads[t].at = "idle")

C26_ReadersOverlap ==
  /\ threads[1].at = "reading"
  /\ threads[1].call.op = "GetAll"
  /\ threads[2].at = "reading"
  /\ threads[2].call.op = "GetCount"
  /\ DOMAIN usersByID # {}
\* C27: with a Cache and concurrent callers of Add, Get, GetByEmail and Del,
\* whenever no call is under way every entry of usersByID that has not
\* expired is for a user the Storage has a row of; so that a Get or
\* GetByEmail made then, after a Del that returned nil and no Add since,
\* returns nil.
C27_CacheWithinStorage ==
  Quiet
  => \A id \in DOMAIN usersByID :
        ~Expired(usersByID[id], now)
        => \E i \in 1..Len(storage) : storage[i] = usersByID[id].User
====
